---- MODULE Spec2Model ----
(***************************************************************************)
(* Model of pos_restrict_out_of_stock/models/product.py: the two methods   *)
(* ProductProduct._load_pos_data_fields and                                *)
(* ProductProduct._process_pos_ui_product_product, over a small ORM        *)
(* database (pos.config, stock.picking.type, stock.warehouse,              *)
(* stock.location, stock.quant).                                           *)
(*                                                                         *)
(* Python values: a float quantity is an integer here, a recordset is the  *)
(* id of its record (0 is the empty recordset), a missing dict key, None   *)
(* and a float are the tagged values Absent, None and Float(x).            *)
(***************************************************************************)
EXTENDS Integers, Sequences, FiniteSets, Bags, TLC

VARIABLES
    stock_location,  \* stock.location table: location id -> parent location id (0: none)
    stock_quant,     \* stock.quant table: bag of rows [product_id, location_id, company_id, quantity]
    pos_config,      \* pos.config table: config id -> record
    products,        \* the in-memory list of product dicts of the POS payload
    products_in,     \* history: the list as it was handed to the last call
    config,          \* history: the `config` argument of the last call
    calls,           \* history: parent/ORM calls made by the last call, in order
    location,        \* history: the location id the last call aggregated on (0: none)
    outcome,         \* history: "none" before any call, then "return" or "raise"
    parent_fields,   \* history: what super()._load_pos_data_fields returned
    fields           \* the list _load_pos_data_fields returned

vars == <<stock_location, stock_quant, pos_config, products, products_in,
          config, calls, location, outcome, parent_fields, fields>>

dbvars == <<stock_location, stock_quant, pos_config>>

----------------------------------------------------------------------------
(* Bounds *)
MaxProducts == 2
MaxQuants == 2
MaxFields == 4

SeqsUpTo(S, n) == UNION {[1..k -> S] : k \in 0..n}

----------------------------------------------------------------------------
(* The database the method reads *)

ProductIds == {1, 2}
LocationIds == {1, 2, 3}
CompanyIds == {1, 2}
ConfigIds == {1}

\* stock.location: 1 is the parent of 2, 2 the parent of 3.
LocationTree == [l \in LocationIds |-> l - 1]

\* stock.picking.type: type 1 has a default source location, type 2 has none.
stock_picking_type == <<[default_location_src_id |-> 2], [default_location_src_id |-> 0]>>

\* stock.warehouse: warehouse 1 has a lot stock location, warehouse 2 has none.
stock_warehouse == <<[lot_stock_id |-> 3], [lot_stock_id |-> 0]>>

Quantities == {1, 2}

QuantRows == [product_id : ProductIds, location_id : LocationIds,
              company_id : CompanyIds, quantity : Quantities]

\* Rows of the POS company (company 1) holding one unit.
UnitRows == {r \in QuantRows : r.company_id = 1 /\ r.quantity = 1}

\* Unit rows on the lot stock location of warehouse 1.
LotStockRows == {r \in UnitRows : r.location_id = 3}

NoConfig == [exists |-> FALSE, picking_type_id |-> 0, warehouse_id |-> 0, company_id |-> 0]

\* The POS company is company 1; quants may belong to either company.
ConfigRecords == [exists : {TRUE}, picking_type_id : 0..2, warehouse_id : 0..2,
                  company_id : {1}]

RECURSIVE SeqToBag(_)
SeqToBag(s) == IF s = <<>> THEN EmptyBag ELSE SetToBag({Head(s)}) (+) SeqToBag(Tail(s))

----------------------------------------------------------------------------
(* Python values of the payload *)

Absent == [tag |-> "absent", val |-> 0]
None == [tag |-> "None", val |-> 0]
Float(x) == [tag |-> "float", val |-> x]

TypeValues == {"product", "consu"}

ProductDicts == [id : ProductIds, is_storable : BOOLEAN, type : TypeValues,
                 pos_available_qty : {Absent}]

\* Dicts of goods, storable or not by the is_storable flag alone.
GoodsDicts == {p \in ProductDicts : p.type = "consu"}

\* The `config` argument: None, False, the int id of a config, the recordset
\* of a config, or an object that is not a recordset (a string).
ConfigArgs == {[kind |-> "None", id |-> 0], [kind |-> "False", id |-> 0],
               [kind |-> "str", id |-> 0]}
              \cup [kind : {"int", "recordset"}, id : ConfigIds]

----------------------------------------------------------------------------
(* _load_pos_data_fields *)

FieldNames == {"id", "display_name", "type", "is_storable"}

RECURSIVE Contains(_, _)
Contains(s, x) == IF s = <<>> THEN FALSE ELSE Head(s) = x \/ Contains(Tail(s), x)

\* Variant: the membership test is missing.
AppendIfMissing_always(fs, extra) == Append(fs, extra)

\* One turn of `for extra in [...]: if extra not in fields: fields.append(extra)`.
AppendIfMissing(fs, extra) == IF Contains(fs, extra) THEN fs ELSE Append(fs, extra)

\* fields = list(super()._load_pos_data_fields(config_id)), then the loop
\* over ["type", "is_storable"].
LoadPosDataFields(parent) == AppendIfMissing(AppendIfMissing(parent, "type"), "is_storable")

----------------------------------------------------------------------------
(* _process_pos_ui_product_product *)

\* isinstance(config, int): bool is a subclass of int, so False passes too.
IsInstanceInt(arg) == arg.kind \in {"int", "False"}

\* Variant: browse() is given nothing.
Browse_empty(arg) == [kind |-> "recordset", id |-> 0]

\* self.env["pos.config"].browse(config): the recordset of that id, the
\* empty recordset for 0 / False.
Browse(arg) == [kind |-> "recordset", id |-> arg.id]

\* Python truth value of the argument in `elif not config`.
Truthy(arg) == CASE arg.kind = "None" -> FALSE
                 [] arg.kind = "False" -> FALSE
                 [] arg.kind = "int" -> arg.id # 0
                 [] arg.kind = "recordset" -> arg.id # 0
                 [] OTHER -> TRUE

\* config.exists(): the records of the recordset that are in the table.
Exists(rs) == IF rs.id \in ConfigIds /\ pos_config[rs.id].exists THEN rs.id ELSE 0

\* Variant: the warehouse's lot stock location is preferred.
ResolveLocation_lotfirst(rec) ==
    LET src == stock_picking_type[rec.picking_type_id].default_location_src_id
        lot == IF rec.warehouse_id # 0
               THEN stock_warehouse[rec.warehouse_id].lot_stock_id ELSE 0
    IN IF lot # 0 THEN lot ELSE src

\* picking_type.default_location_src_id or
\* (config.warehouse_id and config.warehouse_id.lot_stock_id)
ResolveLocation(rec) ==
    LET src == stock_picking_type[rec.picking_type_id].default_location_src_id
    IN IF src # 0 THEN src
       ELSE IF rec.warehouse_id # 0
            THEN stock_warehouse[rec.warehouse_id].lot_stock_id
            ELSE 0

\* The try block (lines 46-64).  exc: an exception was raised inside it;
\* location 0: the block returned from the method.
TryBlock(arg) ==
    LET isint == IsInstanceInt(arg)
        cfg == IF isint THEN Browse(arg) ELSE arg
        c1 == IF isint THEN <<"browse">> ELSE <<>>
        stop(c) == [exc |-> FALSE, cfg |-> 0, location |-> 0, calls |-> c]
    IN IF ~isint /\ ~Truthy(arg) THEN stop(c1)
       ELSE IF cfg.kind # "recordset"
            THEN [exc |-> TRUE, cfg |-> 0, location |-> 0, calls |-> c1]
       ELSE IF Exists(cfg) = 0 THEN stop(c1 \o <<"exists">>)
       ELSE IF pos_config[cfg.id].picking_type_id = 0 THEN stop(c1 \o <<"exists">>)
       ELSE [exc |-> FALSE, cfg |-> cfg.id,
             location |-> ResolveLocation(pos_config[cfg.id]),
             calls |-> c1 \o <<"exists">>]

\* Variant: the exception is not caught.
OnException_raise == "raise"

\* except Exception: return
OnException == "return"

\* Locations matched by ("location_id", "child_of", loc).
\* Variant: the location itself only, no descendants ("=" for "child_of").
ChildOf_self(loc) == {loc}

RECURSIVE IsChildOf(_, _)
IsChildOf(l, loc) ==
    l = loc \/ (stock_location[l] # 0 /\ IsChildOf(stock_location[l], loc))

ChildOf(loc) == {l \in LocationIds : IsChildOf(l, loc)}

RECURSIVE SumQuantity(_)
SumQuantity(rows) ==
    IF rows = {} THEN 0
    ELSE LET r == CHOOSE x \in rows : TRUE
         IN r.quantity * CopiesIn(r, stock_quant) + SumQuantity(rows \ {r})

\* The rows selected by the domain of the read_group call.
QuantDomain(product_ids, loc, company) ==
    {r \in BagToSet(stock_quant) :
        /\ r.product_id \in product_ids
        /\ r.location_id \in ChildOf(loc)
        /\ r.company_id = company}

\* stock.quant read_group(domain, ["product_id", "quantity:sum"], ["product_id"]):
\* one group per product that has a row in the domain.
ReadGroup(product_ids, loc, company) ==
    LET rows == QuantDomain(product_ids, loc, company)
    IN {[product_id |-> pid,
         quantity |-> SumQuantity({r \in rows : r.product_id = pid})] :
            pid \in {r.product_id : r \in rows}}

\* qty_by_product = {q["product_id"][0]: q["quantity"] for q in quants}
QtyByProduct(quants) ==
    [pid \in {q.product_id : q \in quants} |->
        (CHOOSE q \in quants : q.product_id = pid).quantity]

\* dict.get(key, default)
Get(d, key, default) == IF key \in DOMAIN d THEN d[key] ELSE default

\* Variant: the type is not looked at.
IsStorable_flag(p) == p.is_storable

\* p.get("is_storable") or p.get("type") == "product"
IsStorable(p) == p.is_storable \/ p.type = "product"

\* Variant: the dict is rebuilt and is_storable normalised.
SetAvailableQty_rebuild(p, qty_by_product) ==
    IF p.is_storable \/ p.type = "product"
    THEN [id |-> p.id, is_storable |-> TRUE, type |-> p.type,
          pos_available_qty |-> Float(Get(qty_by_product, p.id, 0))]
    ELSE [p EXCEPT !.pos_available_qty = None]

\* Variant: the else branch is missing.
SetAvailableQty_noelse(p, qty_by_product) ==
    IF p.is_storable \/ p.type = "product"
    THEN [p EXCEPT !.pos_available_qty = Float(Get(qty_by_product, p.id, 0))]
    ELSE p

\* The body of `for p in products`.
SetAvailableQty(p, qty_by_product) ==
    IF IsStorable(p)
    THEN [p EXCEPT !.pos_available_qty = Float(Get(qty_by_product, p.id, 0))]
    ELSE [p EXCEPT !.pos_available_qty = None]

\* The whole method on the list `prods` with argument `arg`.
ProcessResult(prods, arg) ==
    LET t == TryBlock(arg)
    IN IF prods = <<>>
       THEN [products |-> prods, calls |-> <<"super">>, location |-> 0,
             outcome |-> "return"]
       ELSE IF t.exc
       THEN [products |-> prods, calls |-> <<"super">> \o t.calls, location |-> 0,
             outcome |-> OnException]
       ELSE IF t.location = 0
       THEN [products |-> prods, calls |-> <<"super">> \o t.calls, location |-> 0,
             outcome |-> "return"]
       ELSE LET product_ids == {prods[i].id : i \in DOMAIN prods}
                quants == ReadGroup(product_ids, t.location,
                                    pos_config[t.cfg].company_id)
                qty_by_product == QtyByProduct(quants)
            IN [products |-> [i \in DOMAIN prods |->
                                 SetAvailableQty(prods[i], qty_by_product)],
                calls |-> <<"super">> \o t.calls \o <<"read_group">>,
                location |-> t.location,
                outcome |-> "return"]

----------------------------------------------------------------------------
(* State machine *)

TypeOK ==
    /\ stock_location = LocationTree
    /\ pos_config \in [ConfigIds -> {NoConfig} \cup ConfigRecords]
    /\ outcome \in {"none", "return", "raise"}
    /\ location \in {0} \cup LocationIds

\* A config with a picking type and a location to resolve.
StockedConfigs ==
    {[exists |-> TRUE, picking_type_id |-> 1, warehouse_id |-> 1, company_id |-> 1],
     [exists |-> TRUE, picking_type_id |-> 2, warehouse_id |-> 1, company_id |-> 1]}

\* The database holds up to MaxQuants of the rows `rows` and the configs `recs`;
\* the payload is a list of up to MaxProducts of the dicts `dicts`.
InitWith(rows, recs, dicts) ==
    /\ stock_location = LocationTree
    /\ \E s \in SeqsUpTo(rows, MaxQuants) : stock_quant = SeqToBag(s)
    /\ pos_config \in [ConfigIds -> recs]
    /\ products \in SeqsUpTo(dicts, MaxProducts)

InitCall ==
    /\ products_in = <<>>
    /\ config = [kind |-> "None", id |-> 0]
    /\ calls = <<>>
    /\ location = 0
    /\ outcome = "none"

InitFields ==
    /\ parent_fields = <<>>
    /\ fields = <<>>

\* Any config and any dict, stock on the lot stock location.
Init ==
    /\ InitWith(LotStockRows, {NoConfig} \cup ConfigRecords, ProductDicts)
    /\ InitCall
    /\ InitFields

\* A call of _process_pos_ui_product_product(products, arg).
Process(arg) ==
    LET r == ProcessResult(products, arg)
    IN /\ products_in' = products
       /\ config' = arg
       /\ products' = r.products
       /\ calls' = r.calls
       /\ location' = r.location
       /\ outcome' = r.outcome
       /\ UNCHANGED <<dbvars, parent_fields, fields>>

ProcessCall == \E arg \in ConfigArgs : Process(arg)

Next == ProcessCall

Spec == Init /\ [][Next]_vars

----------------------------------------------------------------------------
(* The aggregation: any stock, a config whose location resolves, and the   *)
(* session's call.                                                         *)

\* The session loads its data: the method is called with the session's config.
SessionLoad == \E id \in ConfigIds : Process([kind |-> "recordset", id |-> id])

InitStock ==
    /\ InitWith(QuantRows, StockedConfigs, GoodsDicts)
    /\ InitCall
    /\ InitFields

NextStock == SessionLoad

SpecStock == InitStock /\ [][NextStock]_vars

----------------------------------------------------------------------------
(* The field list *)

InitLoad ==
    /\ stock_location = LocationTree
    /\ stock_quant = EmptyBag
    /\ pos_config = [c \in ConfigIds |-> NoConfig]
    /\ products = <<>>
    /\ InitCall
    /\ InitFields

\* A call of _load_pos_data_fields(config_id) whose parent returns `parent`.
LoadCall ==
    /\ \E parent \in SeqsUpTo(FieldNames, MaxFields) :
          /\ parent_fields' = parent
          /\ fields' = LoadPosDataFields(parent)
    /\ UNCHANGED <<dbvars, products, products_in, config, calls, location, outcome>>

NextLoad == LoadCall

SpecLoad == InitLoad /\ [][NextLoad]_vars

----------------------------------------------------------------------------
(* What the claims speak about, stated on the database and the arguments   *)

Called == outcome # "none"

\* The argument designates a config record of the table.
Designates(arg) ==
    /\ arg.kind \in {"int", "recordset"}
    /\ arg.id \in ConfigIds
    /\ pos_config[arg.id].exists

SrcOf(rec) == IF rec.picking_type_id = 0 THEN 0
              ELSE stock_picking_type[rec.picking_type_id].default_location_src_id

LotOf(rec) == IF rec.warehouse_id = 0 THEN 0
              ELSE stock_warehouse[rec.warehouse_id].lot_stock_id

\* A stock location can be resolved from the argument.
Resolvable(arg) ==
    /\ Designates(arg)
    /\ pos_config[arg.id].picking_type_id # 0
    /\ (SrcOf(pos_config[arg.id]) # 0 \/ LotOf(pos_config[arg.id]) # 0)

Storable(p) == p.is_storable = TRUE \/ p.type = "product"

\* loc and every location below it.
RECURSIVE Below(_)
Below(S) ==
    LET T == S \cup {l \in LocationIds : stock_location[l] \in S}
    IN IF T = S THEN S ELSE Below(T)

RECURSIVE Total(_)
Total(rows) ==
    IF rows = {} THEN 0
    ELSE LET r == CHOOSE x \in rows : TRUE
         IN CopiesIn(r, stock_quant) * r.quantity + Total(rows \ {r})

\* Quantity of product pid in loc and below, over all companies.
OnHand(pid, loc) ==
    Total({r \in BagToSet(stock_quant) :
              r.product_id = pid /\ r.location_id \in Below({loc})})

\* The same, over the quants of one company.
OnHandOf(pid, loc, company) ==
    Total({r \in BagToSet(stock_quant) :
              /\ r.product_id = pid
              /\ r.location_id \in Below({loc})
              /\ r.company_id = company})

Written == Called /\ products_in # <<>> /\ Resolvable(config)

\* The location the spec says is resolved from a config record.
ExpectedLocation(rec) == IF SrcOf(rec) # 0 THEN SrcOf(rec) ELSE LotOf(rec)

----------------------------------------------------------------------------
(* Claims *)

\* C1 (as stated): after a call with a non-empty list and a resolvable
\* location, every storable dict holds the sum of the quantities of all
\* quants of its product in the resolved location or below it (0.0 if none).
C1_AllQuantsSummed ==
    Written =>
        \A i \in DOMAIN products :
            Storable(products[i]) =>
                products[i].pos_available_qty =
                    Float(OnHand(products[i].id,
                                 ExpectedLocation(pos_config[config.id])))

\* C1 (amended): after a call with a non-empty list and a resolvable
\* location, every storable dict holds the sum of the quantities of the
\* quants of its product that are in the resolved location or below it and
\* belong to the config's company (0.0 if there is none).
C1_CompanyQuantsSummed ==
    Written =>
        \A i \in DOMAIN products :
            Storable(products[i]) =>
                products[i].pos_available_qty =
                    Float(OnHandOf(products[i].id,
                                   ExpectedLocation(pos_config[config.id]),
                                   pos_config[config.id].company_id))

\* A storable dict got the quantity of a quant that lies strictly below the
\* resolved location, while a quant of another company of the same product
\* lies in the hierarchy too and is not counted.
C1_Witness ==
    /\ Written
    /\ \E i \in DOMAIN products :
          /\ Storable(products[i])
          /\ products[i].pos_available_qty.tag = "float"
          /\ products[i].pos_available_qty.val >= 1
          /\ \E r \in BagToSet(stock_quant) :
                /\ r.product_id = products[i].id
                /\ r.location_id \in Below({location}) \ {location}
                /\ r.company_id = pos_config[config.id].company_id
          /\ \E r \in BagToSet(stock_quant) :
                /\ r.product_id = products[i].id
                /\ r.location_id \in Below({location})
                /\ r.company_id # pos_config[config.id].company_id

\* C2 (as stated): after any call with a non-empty list every dict has the
\* key pos_available_qty.
C2_KeyAlwaysSet ==
    (Called /\ products_in # <<>>) =>
        \A i \in DOMAIN products : products[i].pos_available_qty.tag # "absent"

\* C2 (amended): after a call with a non-empty list and a config from which
\* a stock location is resolved, every dict has the key pos_available_qty.
C2_KeySetWhenResolved ==
    Written =>
        \A i \in DOMAIN products : products[i].pos_available_qty.tag # "absent"

\* The key was set on a storable and on a non-storable dict of one list.
C2_Witness ==
    /\ Written
    /\ \E i, j \in DOMAIN products :
          /\ Storable(products[i]) /\ ~Storable(products[j])
          /\ products_in[i].pos_available_qty.tag = "absent"
          /\ products_in[j].pos_available_qty.tag = "absent"
          /\ products[i].pos_available_qty.tag = "float"
          /\ products[j].pos_available_qty.tag = "None"

\* C3: a dict on which the field is written holds None when it is neither
\* is_storable nor of type "product", whatever quants exist for it, and
\* holds a number exactly when it is is_storable or of type "product".
C3_OnlyStorableConstrained ==
    Called =>
        \A i \in DOMAIN products :
            products[i].pos_available_qty.tag # "absent" =>
                /\ ~Storable(products[i]) => products[i].pos_available_qty = None
                /\ products[i].pos_available_qty.tag = "float" <=> Storable(products[i])

\* A non-storable dict got None although a quant of the config's company
\* exists for its product in the resolved location; a dict of type
\* "product" without is_storable got a number.
C3_Witness ==
    /\ Written
    /\ \E i \in DOMAIN products :
          /\ ~Storable(products[i])
          /\ products[i].pos_available_qty = None
          /\ OnHandOf(products[i].id, location, pos_config[config.id].company_id) > 0
    /\ \E j \in DOMAIN products :
          /\ ~products[j].is_storable /\ products[j].type = "product"
          /\ products[j].pos_available_qty.tag = "float"

\* C4: the location the aggregation runs on is resolved from the config: it
\* is the default source location of the config's picking type when that is
\* set, otherwise the lot stock location of the config's warehouse; the
\* aggregation runs on no other location, and it runs on that one whenever
\* the config has a picking type and one of the two locations is set.
C4_LocationFromConfig ==
    Called =>
        /\ location # 0 =>
              /\ Designates(config)
              /\ location = ExpectedLocation(pos_config[config.id])
        /\ Written => location = ExpectedLocation(pos_config[config.id])
        /\ location # 0 <=> Contains(calls, "read_group")

\* Both locations are set and differ, and the default source location of
\* the picking type was used.
C4_Witness ==
    /\ Written
    /\ Contains(calls, "read_group")
    /\ SrcOf(pos_config[config.id]) # 0
    /\ LotOf(pos_config[config.id]) # 0
    /\ LotOf(pos_config[config.id]) # SrcOf(pos_config[config.id])
    /\ location = SrcOf(pos_config[config.id])

\* No stock location can be determined from the argument.
NoLocation(arg) ==
    \/ arg.kind \in {"None", "False"}
    \/ arg.kind = "str"
    \/ /\ arg.kind \in {"int", "recordset"}
       /\ \/ arg.id \notin ConfigIds
          \/ ~pos_config[arg.id].exists
          \/ pos_config[arg.id].picking_type_id = 0
          \/ /\ SrcOf(pos_config[arg.id]) = 0
             /\ LotOf(pos_config[arg.id]) = 0

\* C5: when no stock location can be determined (config None or False, no
\* such record, no picking type, neither location set, or an exception on
\* access), the call returns normally and leaves the list as it received it.
C5_NoLocationNoField ==
    (Called /\ NoLocation(config)) =>
        /\ outcome = "return"
        /\ products = products_in
        /\ location = 0

\* The access to the config raised (the argument is no recordset) on a
\* non-empty list, and the call returned with the list untouched.
C5_Witness ==
    /\ outcome = "return"
    /\ config.kind = "str"
    /\ products_in # <<>>
    /\ products = products_in
    /\ \A i \in DOMAIN products : products[i].pos_available_qty.tag = "absent"

\* C8: the id of a config record and the recordset of that record give the
\* same final list, for every list and every stock state.
C8_IdLikeRecordset ==
    \A id \in ConfigIds :
        ProcessResult(products, [kind |-> "int", id |-> id]).products
            = ProcessResult(products, [kind |-> "recordset", id |-> id]).products

\* A call with the int id of a config wrote the field through browse().
C8_Witness ==
    /\ Written
    /\ config.kind = "int"
    /\ Contains(calls, "browse")
    /\ \E i \in DOMAIN products :
          /\ products_in[i].pos_available_qty.tag = "absent"
          /\ products[i].pos_available_qty.tag = "float"

RECURSIVE Count(_, _)
Count(s, x) ==
    IF s = <<>> THEN 0 ELSE (IF Head(s) = x THEN 1 ELSE 0) + Count(Tail(s), x)

\* C9: every call invokes the parent implementation exactly once and first
\* (also on an empty list); beyond that it only sets pos_available_qty: the
\* list keeps its dicts in their order, every other key keeps its value, and
\* no quant, location or config record is created, changed or deleted.
C9_OnlyTheFieldChanges ==
    [][/\ stock_quant' = stock_quant
       /\ stock_location' = stock_location
       /\ pos_config' = pos_config
       /\ outcome' # "none"
       /\ calls'[1] = "super"
       /\ Count(calls', "super") = 1
       /\ Len(products') = Len(products)
       /\ \A i \in DOMAIN products :
             /\ products'[i].id = products[i].id
             /\ products'[i].is_storable = products[i].is_storable
             /\ products'[i].type = products[i].type]_vars

\* A call wrote the field on a list of two dicts.
C9_Witness ==
    /\ Written
    /\ Len(products) = 2
    /\ calls = <<"super", "exists", "read_group">>
    /\ products # products_in

Range(s) == {s[i] : i \in DOMAIN s}

Extras == {"type", "is_storable"}

\* C7: the returned list contains "type" and "is_storable", starts with the
\* parent's fields in their order, and what follows them is exactly the
\* fields among the two that the parent's list lacks, each once.
C7_FieldsEnsured ==
    fields # <<>> =>
        /\ Extras \subseteq Range(fields)
        /\ Len(fields) >= Len(parent_fields)
        /\ SubSeq(fields, 1, Len(parent_fields)) = parent_fields
        /\ Len(fields) = Len(parent_fields) + Cardinality(Extras \ Range(parent_fields))
        /\ \A i \in DOMAIN fields :
              i > Len(parent_fields) =>
                  /\ fields[i] \in Extras \ Range(parent_fields)
                  /\ \A j \in DOMAIN fields : j # i => fields[j] # fields[i]

\* The parent's list had "type" but not "is_storable": only the latter was
\* appended.
C7_Witness ==
    /\ Contains(parent_fields, "type")
    /\ ~Contains(parent_fields, "is_storable")
    /\ Len(parent_fields) >= 2
    /\ fields = Append(parent_fields, "is_storable")
====
